---------------------------- MODULE Spec2Model ----------------------------
(***************************************************************************)
(* Model of the Picomotor 8742 driver (src/src/picomotor.py): the command  *)
(* formatter, the reply parser, the protocol operations of Controller and  *)
(* its two busy-poll loops, over a byte channel (ep_out.write/ep_in.read). *)
(*                                                                         *)
(* Text is a sequence of one-character strings; raw replies are sequences  *)
(* of byte codes.  Python values are records [k, n, s, l]: the type tag,   *)
(* the integer, the text and the list of a value.                          *)
(***************************************************************************)
EXTENDS Integers, Sequences, FiniteSets, TLC

VARIABLES pc, op, wire, result

vars == <<pc, op, wire, result>>

----------------------------------------------------------------------------
(* Bounds of the model *)

\* status queries one call of a polling operation may issue
MaxPolls == 4

\* length of the raw replies handed to parse_reply on its own
MaxReplyLen == 4

----------------------------------------------------------------------------
(* Python values *)

None == [k |-> "none", n |-> 0, s |-> <<>>, l |-> <<>>]

I(n) == [k |-> "int", n |-> n, s |-> <<>>, l |-> <<>>]

S(s) == [k |-> "str", n |-> 0, s |-> s, l |-> <<>>]

B(b) == [k |-> "bool", n |-> IF b THEN 1 ELSE 0, s |-> <<>>, l |-> <<>>]

L(l) == [k |-> "list", n |-> 0, s |-> <<>>, l |-> l]

\* type(v) == int
is_int(v) == v.k = "int"

\* truth value of v, as tested by `if v:`
truthy(v) ==
    CASE v.k = "none" -> FALSE
      [] v.k = "int" -> v.n # 0
      [] v.k = "bool" -> v.n = 1
      [] v.k = "str" -> v.s # <<>>
      [] v.k = "list" -> v.l # <<>>

DigitChars == <<"0", "1", "2", "3", "4", "5", "6", "7", "8", "9">>

RECURSIVE Digits(_)
\* decimal digits of a natural number, most significant first
Digits(n) ==
    IF n < 10 THEN <<DigitChars[n + 1]>>
    ELSE Digits(n \div 10) \o <<DigitChars[(n % 10) + 1]>>

\* str(n) of an integer
IntToStr(n) == IF n < 0 THEN <<"-">> \o Digits(0 - n) ELSE Digits(n)

\* f'{v}'
fstr(v) ==
    CASE v.k = "int" -> IntToStr(v.n)
      [] v.k = "str" -> v.s
      [] v.k = "bool" -> IF v.n = 1 THEN <<"T", "r", "u", "e">>
                         ELSE <<"F", "a", "l", "s", "e">>
      [] v.k = "none" -> <<"N", "o", "n", "e">>
      [] v.k = "list" -> <<"[", "]">>

IsDigit(c) == \E i \in 1..10 : DigitChars[i] = c

DigitVal(c) == (CHOOSE i \in 1..10 : DigitChars[i] = c) - 1

RECURSIVE DigitsVal(_)
DigitsVal(s) ==
    IF s = <<>> THEN 0
    ELSE 10 * DigitsVal(SubSeq(s, 1, Len(s) - 1)) + DigitVal(s[Len(s)])

AllDigits(s) == s # <<>> /\ \A i \in 1..Len(s) : IsDigit(s[i])

----------------------------------------------------------------------------
(* Outcome of a call: returned value or raised exception *)

Ok(v) == [st |-> "ok", err |-> "", val |-> v]

Err(e) == [st |-> "err", err |-> e, val |-> None]

NoResult == [st |-> "none", err |-> "", val |-> None]

Pending == [st |-> "pending", err |-> "", val |-> None]

InvalidCommand == "Invalid command"
InvalidAddress == "Invalid address value"
InvalidAxis == "Invalid axis value"
InvalidVelocity == "Velocity must be between 1 and 2000"
InvalidAcceleration == "Invalid acceleration value"
InvalidDirection == "Direction must be + or -"
InvalidTarget == "Invalid target position"
InvalidMotorType == "Invalid motor type"
InvalidNewAddress == "New address must be between 1 and 31"
InvalidConflictMode == "Conflict resolution scheme must be 0, 1, or 2."
IndexError == "IndexError"
IntError == "ValueError: invalid literal for int()"
KeyError == "KeyError"

\* int(s) of a text
int_(s) ==
    IF AllDigits(s) THEN Ok(I(DigitsVal(s)))
    ELSE IF Len(s) > 1 /\ s[1] = "-" /\ AllDigits(Tail(s))
         THEN Ok(I(0 - DigitsVal(Tail(s))))
    ELSE IF Len(s) > 1 /\ s[1] = "+" /\ AllDigits(Tail(s))
         THEN Ok(I(DigitsVal(Tail(s))))
    ELSE Err(IntError)

----------------------------------------------------------------------------
(* Command table (commands.py) *)

COMMANDS ==
    [ id_string          |-> <<"*", "I", "D", "N", "?">>,
      query_firmware     |-> <<"V", "E", "?">>,
      set_velocity       |-> <<"V", "A">>,
      query_velocity     |-> <<"V", "A", "?">>,
      set_accel          |-> <<"A", "C">>,
      query_accel        |-> <<"A", "C", "?">>,
      query_pos          |-> <<"T", "P", "?">>,
      define_home        |-> <<"D", "H">>,
      query_home         |-> <<"D", "H", "?">>,
      query_motion_done  |-> <<"M", "D", "?">>,
      move_indefinitely  |-> <<"M", "V">>,
      move_to_target_pos |-> <<"P", "A">>,
      query_target_pos   |-> <<"P", "A", "?">>,
      move_relative      |-> <<"P", "R">>,
      query_target_rel   |-> <<"P", "R", "?">>,
      motor_check        |-> <<"M", "C">>,
      set_motor_type     |-> <<"Q", "M">>,
      query_motor_type   |-> <<"Q", "M", "?">>,
      set_address        |-> <<"S", "A">>,
      query_address      |-> <<"S", "A", "?">>,
      scan_RS485         |-> <<"S", "C">>,
      query_scan_status  |-> <<"S", "D", "?">>,
      query_RS485_addr   |-> <<"S", "C", "?">>,
      save               |-> <<"S", "M">>,
      stop               |-> <<"S", "T">>,
      query_error_msg    |-> <<"T", "B", "?">>,
      query_error_nr     |-> <<"T", "E", "?">>,
      purge_memory       |-> <<"X", "X">> ]

\* COMMANDS.values()
CommandValues == {COMMANDS[k] : k \in DOMAIN COMMANDS}

----------------------------------------------------------------------------
(* Byte channel: ep_out.write / ep_in.read *)

CR == "\r"

LF == "\n"

\* code point and character of the bytes the model's channel delivers
Ascii ==
    << <<10, LF>>, <<13, CR>>, <<32, " ">>, <<45, "-">>, <<48, "0">>,
       <<49, "1">>, <<50, "2">>, <<51, "3">>, <<53, "5">>, <<54, "6">>,
       <<55, "7">>, <<62, ">">>, <<88, "X">>, <<89, "Y">>, <<90, "Z">> >>

\* chr(x)
chr(x) ==
    IF \E i \in 1..Len(Ascii) : Ascii[i][1] = x
    THEN Ascii[CHOOSE i \in 1..Len(Ascii) : Ascii[i][1] = x][2]
    ELSE "?"

\* the byte the device sends for a character
ord(c) == Ascii[CHOOSE i \in 1..Len(Ascii) : Ascii[i][2] = c][1]

\* the bytes the device sends for a text
bytes(t) == [i \in 1..Len(t) |-> ord(t[i])]

\* one write on ep_out
Wr(cmd) == [t |-> "w", cmd |-> cmd, data |-> <<>>]

\* one read on ep_in
Rd(data) == [t |-> "r", cmd |-> <<>>, data |-> data]

\* mutant of send_command: the IN endpoint is read whether or not a reply
\* is asked for
send_command_reads(usb_command, get_reply, reply) ==
    <<Wr(usb_command), Rd(reply)>>

\* send_command: the traffic of one call, the reply is what ep_in.read returns
send_command(usb_command, get_reply, reply) ==
    IF get_reply THEN <<Wr(usb_command), Rd(reply)>> ELSE <<Wr(usb_command)>>

\* str.isspace of one character
isspace(c) == c \in {" ", LF, CR, "\t", "\f"}

RECURSIVE rstrip(_)
\* str.rstrip()
rstrip(s) ==
    IF s = <<>> THEN s
    ELSE IF isspace(s[Len(s)]) THEN rstrip(SubSeq(s, 1, Len(s) - 1))
    ELSE s

\* ''.join([chr(x) for x in reply])
decode(reply) == [i \in 1..Len(reply) |-> chr(reply[i])]

\* mutant of DropEcho: s[1:]
DropEcho_one(s) == SubSeq(s, 2, Len(s))

\* s[2:]
DropEcho(s) == SubSeq(s, 3, Len(s))

\* parse_reply(reply): the text it returns
parse_reply(reply) == DropEcho(rstrip(decode(reply)))

----------------------------------------------------------------------------
(* Command formatter *)

\* verify_command passes
verify_command(cmd) == cmd \in CommandValues

\* verify_address_value passes
verify_address_value(addr) == is_int(addr) /\ (addr.n = 1 \/ addr.n = 2)

\* verify_axis_value passes
verify_axis_value(axis) == is_int(axis) /\ 1 <= axis.n /\ axis.n <= 4

\* `if axis:` of format_command
AxisGiven(axis) == truthy(axis)

\* mutant of ValGiven: `if val:`
ValGiven_truthy(val) == truthy(val)

\* `if val is not None:` of format_command
ValGiven(val) == val # None

\* mutant of format_command: the address is checked before the mnemonic
format_command_addr_first(ascii_cmd, addr, axis, val) ==
    IF ~verify_address_value(addr) THEN Err(InvalidAddress)
    ELSE IF ~verify_command(ascii_cmd) THEN Err(InvalidCommand)
    ELSE IF AxisGiven(axis) /\ ~verify_axis_value(axis) THEN Err(InvalidAxis)
    ELSE LET head == IF AxisGiven(axis)
                     THEN fstr(addr) \o <<">">> \o fstr(axis) \o ascii_cmd
                     ELSE fstr(addr) \o <<">">> \o ascii_cmd
         IN  IF ValGiven(val) THEN Ok(S(head \o fstr(val) \o <<CR>>))
             ELSE Ok(S(head \o <<CR>>))

\* mutant of format_command: the terminator is appended only after a value
format_command_noterm(ascii_cmd, addr, axis, val) ==
    IF ~verify_command(ascii_cmd) THEN Err(InvalidCommand)
    ELSE IF ~verify_address_value(addr) THEN Err(InvalidAddress)
    ELSE IF AxisGiven(axis) /\ ~verify_axis_value(axis) THEN Err(InvalidAxis)
    ELSE LET head == IF AxisGiven(axis)
                     THEN fstr(addr) \o <<">">> \o fstr(axis) \o ascii_cmd
                     ELSE fstr(addr) \o <<">">> \o ascii_cmd
         IN  IF ValGiven(val) THEN Ok(S(head \o fstr(val) \o <<CR>>))
             ELSE Ok(S(head))

format_command(ascii_cmd, addr, axis, val) ==
    IF ~verify_command(ascii_cmd) THEN Err(InvalidCommand)
    ELSE IF ~verify_address_value(addr) THEN Err(InvalidAddress)
    ELSE IF AxisGiven(axis) /\ ~verify_axis_value(axis) THEN Err(InvalidAxis)
    ELSE LET head == IF AxisGiven(axis)
                     THEN fstr(addr) \o <<">">> \o fstr(axis) \o ascii_cmd
                     ELSE fstr(addr) \o <<">">> \o ascii_cmd
         IN  IF ValGiven(val) THEN Ok(S(head \o fstr(val) \o <<CR>>))
             ELSE Ok(S(head \o <<CR>>))

----------------------------------------------------------------------------
(* Protocol operations: the outcome of one call, [res, io], where res is   *)
(* what the call returns or raises and io the channel traffic it causes.   *)
(* reply is what ep_in.read returns if the call reads.                     *)

Out(res, io) == [res |-> res, io |-> io]

\* a validation error raised before format_command
Raise(e) == Out(Err(e), <<>>)

\* cmd = format_command(...); send_command(cmd)
SendOnly(fc) ==
    IF fc.st = "err" THEN Out(fc, <<>>)
    ELSE Out(Ok(None), send_command(fc.val.s, FALSE, <<>>))

\* cmd = format_command(...); reply = parse_reply(send_command(cmd, True))
SendQuery(fc, reply) ==
    IF fc.st = "err" THEN Out(fc, <<>>)
    ELSE Out(Ok(S(parse_reply(reply))), send_command(fc.val.s, TRUE, reply))

\* mutant of ReturnInt: return reply
ReturnInt_text(q) == q

\* return int(reply)
ReturnInt(q) == IF q.res.st = "err" THEN q ELSE Out(int_(q.res.val.s), q.io)

\* mutant of LastIsOne: reply[0] instead of reply[-1]
LastIsOne_first(s) == s[1] = "1"

\* mutant of LastIsOne: anything but '0' counts as done
LastIsOne_nonzero(s) == s[Len(s)] # "0"

\* reply[-1] == '1'
LastIsOne(s) == s[Len(s)] = "1"

\* return reply[-1] == '1'
ReturnDone(q) ==
    IF q.res.st = "err" THEN q
    ELSE IF q.res.val.s = <<>> THEN Out(Err(IndexError), q.io)
    ELSE Out(Ok(B(LastIsOne(q.res.val.s))), q.io)

velocity_ok(val) == is_int(val) /\ 1 <= val.n /\ val.n <= 2000

accel_ok(val) == is_int(val) /\ 0 < val.n /\ val.n <= 200000

motor_type_ok(val) == is_int(val) /\ 0 <= val.n /\ val.n <= 3

new_address_ok(val) == is_int(val) /\ 1 <= val.n /\ val.n <= 31

\* mutant of conflict_ok: upper limit off by one
conflict_ok_upto3(val) == is_int(val) /\ 0 <= val.n /\ val.n <= 3

conflict_ok(val) == is_int(val) /\ 0 <= val.n /\ val.n <= 2

direction_ok(val) == val = S(<<"+">>) \/ val = S(<<"-">>)

get_id(addr, reply) ==
    SendQuery(format_command(COMMANDS.id_string, addr, None, None), reply)

get_firmware_version(reply) ==
    SendQuery(format_command(COMMANDS.query_firmware, I(1), None, None), reply)

set_velocity(addr, axis, val) ==
    IF ~verify_address_value(addr) THEN Raise(InvalidAddress)
    ELSE IF ~verify_axis_value(axis) THEN Raise(InvalidAxis)
    ELSE IF ~velocity_ok(val) THEN Raise(InvalidVelocity)
    ELSE SendOnly(format_command(COMMANDS.set_velocity, addr, axis, val))

get_velocity(addr, axis, reply) ==
    IF ~verify_address_value(addr) THEN Raise(InvalidAddress)
    ELSE IF ~verify_axis_value(axis) THEN Raise(InvalidAxis)
    ELSE ReturnInt(SendQuery(
             format_command(COMMANDS.query_velocity, addr, axis, None), reply))

set_acceleration(addr, axis, val) ==
    IF ~verify_address_value(addr) THEN Raise(InvalidAddress)
    ELSE IF ~verify_axis_value(axis) THEN Raise(InvalidAxis)
    ELSE IF ~accel_ok(val) THEN Raise(InvalidAcceleration)
    ELSE SendOnly(format_command(COMMANDS.set_accel, addr, axis, val))

get_acceleration(addr, axis, reply) ==
    ReturnInt(SendQuery(
        format_command(COMMANDS.query_accel, addr, axis, None), reply))

get_position(addr, axis, reply) ==
    IF ~verify_address_value(addr) THEN Raise(InvalidAddress)
    ELSE IF ~verify_axis_value(axis) THEN Raise(InvalidAxis)
    ELSE ReturnInt(SendQuery(
             format_command(COMMANDS.query_pos, addr, axis, None), reply))

set_home(addr, axis, val) ==
    IF ~verify_address_value(addr) THEN Raise(InvalidAddress)
    ELSE IF ~verify_axis_value(axis) THEN Raise(InvalidAxis)
    ELSE IF ~is_int(val) THEN Raise(InvalidAcceleration)
    ELSE SendOnly(format_command(COMMANDS.define_home, addr, axis, val))

get_home(addr, axis, reply) ==
    SendQuery(format_command(COMMANDS.query_home, addr, axis, None), reply)

finished_moving(addr, axis, reply) ==
    ReturnDone(SendQuery(
        format_command(COMMANDS.query_motion_done, addr, axis, None), reply))

move_indefinitely(addr, axis, direction) ==
    IF ~direction_ok(direction) THEN Raise(InvalidDirection)
    ELSE IF ~verify_address_value(addr) THEN Raise(InvalidAddress)
    ELSE IF ~verify_axis_value(axis) THEN Raise(InvalidAxis)
    ELSE SendOnly(
             format_command(COMMANDS.move_indefinitely, addr, axis, direction))

\* move_to_target up to its poll loop
move_to_target(addr, axis, target) ==
    IF ~verify_address_value(addr) THEN Raise(InvalidAddress)
    ELSE IF ~verify_axis_value(axis) THEN Raise(InvalidAxis)
    ELSE IF ~is_int(target) THEN Raise(InvalidTarget)
    ELSE SendOnly(
             format_command(COMMANDS.move_to_target_pos, addr, axis, target))

get_target(addr, axis, reply) ==
    ReturnInt(SendQuery(
        format_command(COMMANDS.query_target_pos, addr, axis, None), reply))

\* move_relative up to its poll loop
move_relative(addr, axis, steps) ==
    IF ~verify_address_value(addr) THEN Raise(InvalidAddress)
    ELSE IF ~verify_axis_value(axis) THEN Raise(InvalidAxis)
    ELSE IF ~is_int(steps) THEN Raise(InvalidTarget)
    ELSE SendOnly(format_command(COMMANDS.move_relative, addr, axis, steps))

get_relative_target(addr, axis, reply) ==
    SendQuery(format_command(COMMANDS.query_target_rel, addr, axis, None), reply)

detect_motors(addr) ==
    IF ~verify_address_value(addr) THEN Raise(InvalidAddress)
    ELSE SendOnly(format_command(COMMANDS.motor_check, addr, None, None))

set_motor_type(addr, axis, val) ==
    IF ~verify_address_value(addr) THEN Raise(InvalidAddress)
    ELSE IF ~verify_axis_value(axis) THEN Raise(InvalidAxis)
    ELSE IF ~motor_type_ok(val) THEN Raise(InvalidMotorType)
    ELSE SendOnly(format_command(COMMANDS.set_motor_type, addr, axis, val))

\* MOTOR_TYPE
MOTOR_TYPE ==
    [c \in {"0", "1", "2", "3"} |->
        CASE c = "0" -> "No motor connected"
          [] c = "1" -> "Motor Unknown"
          [] c = "2" -> "'Tiny' Motor"
          [] c = "3" -> "'Standard' Motor"]

\* mutant of ReturnMotorType: MOTOR_TYPE.get(code, "Motor Unknown")
ReturnMotorType_default(q) ==
    IF q.res.st = "err" THEN q
    ELSE IF q.res.val.s = <<>> THEN Out(Err(IndexError), q.io)
    ELSE IF q.res.val.s[Len(q.res.val.s)] \notin DOMAIN MOTOR_TYPE
         THEN Out(Ok(S(<<"Motor Unknown">>)), q.io)
    ELSE Out(Ok(S(<<MOTOR_TYPE[q.res.val.s[Len(q.res.val.s)]]>>)), q.io)

\* return MOTOR_TYPE[f'{reply[-1]}'], the label being one text
ReturnMotorType(q) ==
    IF q.res.st = "err" THEN q
    ELSE IF q.res.val.s = <<>> THEN Out(Err(IndexError), q.io)
    ELSE IF q.res.val.s[Len(q.res.val.s)] \notin DOMAIN MOTOR_TYPE
         THEN Out(Err(KeyError), q.io)
    ELSE Out(Ok(S(<<MOTOR_TYPE[q.res.val.s[Len(q.res.val.s)]]>>)), q.io)

get_motor_type(addr, axis, reply) ==
    ReturnMotorType(SendQuery(
        format_command(COMMANDS.query_motor_type, addr, axis, None), reply))

\* format_command(COMMANDS['set_address'], addr, val): val is the third
\* positional argument of format_command, its axis
set_address(addr, val) ==
    IF ~verify_address_value(addr) THEN Raise(InvalidAddress)
    ELSE IF ~new_address_ok(val) THEN Raise(InvalidNewAddress)
    ELSE SendOnly(format_command(COMMANDS.set_address, addr, val, None))

get_address(addr, reply) ==
    IF ~verify_address_value(addr) THEN Raise(InvalidAddress)
    ELSE ReturnInt(SendQuery(
             format_command(COMMANDS.query_address, addr, None, None), reply))

\* scan up to its poll loop
scan(conflict_resolution) ==
    IF ~conflict_ok(conflict_resolution) THEN Raise(InvalidConflictMode)
    ELSE SendOnly(
             format_command(COMMANDS.scan_RS485, I(1), None, conflict_resolution))

is_scan_done(reply) ==
    ReturnDone(SendQuery(
        format_command(COMMANDS.query_scan_status, I(1), None, None), reply))

RECURSIVE BinDigits(_)
\* format(n, 'b') of a natural number
BinDigits(n) ==
    IF n < 2 THEN <<DigitChars[n + 1]>>
    ELSE BinDigits(n \div 2) \o <<DigitChars[(n % 2) + 1]>>

\* format(n, 'b')
format_b(n) == IF n < 0 THEN <<"-">> \o BinDigits(0 - n) ELSE BinDigits(n)

\* mutant of Reversed: the list in the order format() gives it
Reversed_not(lst) == lst

\* lst[::-1]
Reversed(lst) == [i \in 1..Len(lst) |-> lst[Len(lst) + 1 - i]]

\* address_map = [int(s) for s in format(int(reply), 'b')]; address_map[::-1]
ReturnAddressMap(q) ==
    IF q.res.st = "err" THEN q
    ELSE LET n == int_(q.res.val.s)
         IN  IF n.st = "err" THEN Out(n, q.io)
             ELSE LET b == format_b(n.val.n)
                  IN  IF \E i \in 1..Len(b) : ~IsDigit(b[i])
                      THEN Out(Err(IntError), q.io)
                      ELSE Out(Ok(L(Reversed(
                               [i \in 1..Len(b) |-> DigitVal(b[i])]))), q.io)

get_controller_address_map(reply) ==
    ReturnAddressMap(SendQuery(
        format_command(COMMANDS.query_RS485_addr, I(1), None, None), reply))

\* mutant of save_settings: the command goes to controller 2
save_settings_addr2 == SendOnly(format_command(COMMANDS.save, I(2), None, None))

save_settings == SendOnly(format_command(COMMANDS.save, I(1), None, None))

stop_motion(addr, axis) ==
    IF ~verify_address_value(addr) THEN Raise(InvalidAddress)
    ELSE IF ~verify_axis_value(axis) THEN Raise(InvalidAxis)
    ELSE SendOnly(format_command(COMMANDS.stop, addr, axis, None))

get_latest_error_msg(reply) ==
    SendQuery(format_command(COMMANDS.query_error_msg, I(1), None, None), reply)

get_latest_error_code(reply) ==
    SendQuery(format_command(COMMANDS.query_error_nr, I(1), None, None), reply)

purge_all_settings ==
    SendOnly(format_command(COMMANDS.purge_memory, I(1), None, None))

----------------------------------------------------------------------------
(* Arguments the caller passes and replies the device sends *)

AddrArgs == {I(0), I(1), I(2), I(3)}

AxisArgs == {None, I(0), I(1), I(2), I(3), I(4), I(5)}

VelocityArgs == {None, I(0), I(1), I(500), I(2000), I(2001)}

AccelArgs == {None, I(0), I(1), I(200000), I(200001)}

HomeArgs == {None, I(0), I(-7)}

DirectionArgs == {S(<<"+">>), S(<<"-">>), S(<<"x">>)}

TargetArgs == {None, I(-5), I(500)}

MotorTypeArgs == {None, I(-1), I(0), I(3), I(4)}

NewAddressArgs == {None, I(0), I(1), I(4), I(5), I(31), I(32)}

ConflictArgs == {None, I(-1), I(0), I(1), I(2), I(3)}

ReplyTexts ==
    { <<>>,
      <<"1", ">", CR, LF>>,
      <<"1", ">", "0", CR, LF>>,
      <<"1", ">", "1", CR, LF>>,
      <<"1", ">", "2", CR, LF>>,
      <<"2", ">", "3", CR, LF>>,
      <<"1", ">", "5", CR, LF>>,
      <<"1", ">", "6", CR, LF>>,
      <<"1", ">", "7", CR, LF>>,
      <<"1", ">", "5", "0", "0", CR>>,
      <<"1", ">", "-", "5", CR, LF>>,
      <<"1", ">", "1", "0", CR>>,
      <<"1", ">", "0", "1", CR, LF>>,
      <<"1", ">", "X", "Y", "Z", CR, LF>> }

\* what ep_in.read may return
Replies == {bytes(t) : t \in ReplyTexts}

\* what ep_in.read may return to the status query of a poll loop
PollReplies ==
    {bytes(t) : t \in { <<>>,
                        <<"1", ">", CR, LF>>,
                        <<"1", ">", "0", CR, LF>>,
                        <<"1", ">", "1", CR, LF>>,
                        <<"1", ">", "1", "0", CR>>,
                        <<"1", ">", "0", "1", CR, LF>> }}

----------------------------------------------------------------------------
(* State machine: one caller on one Controller, which keeps no state of    *)
(* its own between calls.  pc is the caller's position: idle, inside a     *)
(* poll loop, or done with a call whose outcome is in result.  wire is the *)
(* channel traffic of that call.                                           *)

NoOp == [name |-> "", mn |-> <<>>, addr |-> None, axis |-> None,
         val |-> None, raw |-> <<>>]

Args(name, addr, axis, val) ==
    [name |-> name, mn |-> <<>>, addr |-> addr, axis |-> axis,
     val |-> val, raw |-> <<>>]

Init ==
    /\ pc = "idle"
    /\ op = NoOp
    /\ wire = <<>>
    /\ result = NoResult

\* a call that runs to its return or its exception
Call(name, addr, axis, val, out) ==
    /\ op' = Args(name, addr, axis, val)
    /\ wire' = out.io
    /\ result' = out.res
    /\ pc' = "done"

\* a call that sends its command and enters its poll loop
CallPolling(name, addr, axis, val, out) ==
    /\ op' = Args(name, addr, axis, val)
    /\ wire' = out.io
    /\ result' = IF out.res.st = "err" THEN out.res ELSE Pending
    /\ pc' = IF out.res.st = "err" THEN "done" ELSE "polling"

\* status queries issued so far by the call in progress
NumPolls == Cardinality({i \in 1..Len(wire) : wire[i].t = "r"})

\* mutant of PollStep: an exception of the status query is swallowed and the
\* loop polls again
PollStep_retry(q) ==
    /\ wire' = wire \o q.io
    /\ result' = IF q.res.st = "ok" /\ q.res.val = B(TRUE) THEN Ok(None)
                 ELSE result
    /\ pc' = IF q.res.st = "ok" /\ q.res.val = B(TRUE) THEN "done" ELSE pc
    /\ UNCHANGED op

\* one evaluation of `while not <status query>: pass`
PollStep(q) ==
    /\ wire' = wire \o q.io
    /\ result' = IF q.res.st = "err" THEN q.res
                 ELSE IF q.res.val = B(TRUE) THEN Ok(None)
                 ELSE result
    /\ pc' = IF q.res.st = "err" \/ q.res.val = B(TRUE) THEN "done" ELSE pc
    /\ UNCHANGED op

Call_get_id ==
    /\ pc = "idle"
    /\ \E a \in AddrArgs, r \in Replies : Call("get_id", a, None, None, get_id(a, r))

Call_get_firmware_version ==
    /\ pc = "idle"
    /\ \E r \in Replies :
           Call("get_firmware_version", None, None, None, get_firmware_version(r))

Call_set_velocity ==
    /\ pc = "idle"
    /\ \E a \in AddrArgs, x \in AxisArgs, v \in VelocityArgs :
           Call("set_velocity", a, x, v, set_velocity(a, x, v))

Call_get_velocity ==
    /\ pc = "idle"
    /\ \E a \in AddrArgs, x \in AxisArgs, r \in Replies :
           Call("get_velocity", a, x, None, get_velocity(a, x, r))

Call_set_acceleration ==
    /\ pc = "idle"
    /\ \E a \in AddrArgs, x \in AxisArgs, v \in AccelArgs :
           Call("set_acceleration", a, x, v, set_acceleration(a, x, v))

Call_get_acceleration ==
    /\ pc = "idle"
    /\ \E a \in AddrArgs, x \in AxisArgs, r \in Replies :
           Call("get_acceleration", a, x, None, get_acceleration(a, x, r))

Call_get_position ==
    /\ pc = "idle"
    /\ \E a \in AddrArgs, x \in AxisArgs, r \in Replies :
           Call("get_position", a, x, None, get_position(a, x, r))

Call_set_home ==
    /\ pc = "idle"
    /\ \E a \in AddrArgs, x \in AxisArgs, v \in HomeArgs :
           Call("set_home", a, x, v, set_home(a, x, v))

Call_get_home ==
    /\ pc = "idle"
    /\ \E a \in AddrArgs, x \in AxisArgs, r \in Replies :
           Call("get_home", a, x, None, get_home(a, x, r))

Call_finished_moving ==
    /\ pc = "idle"
    /\ \E a \in AddrArgs, x \in AxisArgs, r \in Replies :
           Call("finished_moving", a, x, None, finished_moving(a, x, r))

Call_move_indefinitely ==
    /\ pc = "idle"
    /\ \E a \in AddrArgs, x \in AxisArgs, v \in DirectionArgs :
           Call("move_indefinitely", a, x, v, move_indefinitely(a, x, v))

Call_move_to_target ==
    /\ pc = "idle"
    /\ \E a \in AddrArgs, x \in AxisArgs, v \in TargetArgs :
           CallPolling("move_to_target", a, x, v, move_to_target(a, x, v))

Poll_move_to_target ==
    /\ pc = "polling"
    /\ op.name = "move_to_target"
    /\ NumPolls < MaxPolls
    /\ \E r \in PollReplies :
           PollStep(finished_moving(op.addr, op.axis, r))

Call_get_target ==
    /\ pc = "idle"
    /\ \E a \in AddrArgs, x \in AxisArgs, r \in Replies :
           Call("get_target", a, x, None, get_target(a, x, r))

Call_move_relative ==
    /\ pc = "idle"
    /\ \E a \in AddrArgs, x \in AxisArgs, v \in TargetArgs :
           CallPolling("move_relative", a, x, v, move_relative(a, x, v))

Poll_move_relative ==
    /\ pc = "polling"
    /\ op.name = "move_relative"
    /\ NumPolls < MaxPolls
    /\ \E r \in PollReplies :
           PollStep(finished_moving(op.addr, op.axis, r))

Call_get_relative_target ==
    /\ pc = "idle"
    /\ \E a \in AddrArgs, x \in AxisArgs, r \in Replies :
           Call("get_relative_target", a, x, None, get_relative_target(a, x, r))

Call_detect_motors ==
    /\ pc = "idle"
    /\ \E a \in AddrArgs : Call("detect_motors", a, None, None, detect_motors(a))

Call_set_motor_type ==
    /\ pc = "idle"
    /\ \E a \in AddrArgs, x \in AxisArgs, v \in MotorTypeArgs :
           Call("set_motor_type", a, x, v, set_motor_type(a, x, v))

Call_get_motor_type ==
    /\ pc = "idle"
    /\ \E a \in AddrArgs, x \in AxisArgs, r \in Replies :
           Call("get_motor_type", a, x, None, get_motor_type(a, x, r))

Call_set_address ==
    /\ pc = "idle"
    /\ \E a \in AddrArgs, v \in NewAddressArgs :
           Call("set_address", a, None, v, set_address(a, v))

Call_get_address ==
    /\ pc = "idle"
    /\ \E a \in AddrArgs, r \in Replies :
           Call("get_address", a, None, None, get_address(a, r))

Call_scan ==
    /\ pc = "idle"
    /\ \E v \in ConflictArgs : CallPolling("scan", None, None, v, scan(v))

Poll_scan ==
    /\ pc = "polling"
    /\ op.name = "scan"
    /\ NumPolls < MaxPolls
    /\ \E r \in PollReplies : PollStep(is_scan_done(r))

Call_is_scan_done ==
    /\ pc = "idle"
    /\ \E r \in Replies : Call("is_scan_done", None, None, None, is_scan_done(r))

Call_get_controller_address_map ==
    /\ pc = "idle"
    /\ \E r \in Replies :
           Call("get_controller_address_map", None, None, None,
                get_controller_address_map(r))

Call_save_settings ==
    /\ pc = "idle"
    /\ Call("save_settings", None, None, None, save_settings)

Call_stop_motion ==
    /\ pc = "idle"
    /\ \E a \in AddrArgs, x \in AxisArgs :
           Call("stop_motion", a, x, None, stop_motion(a, x))

Call_get_latest_error_msg ==
    /\ pc = "idle"
    /\ \E r \in Replies :
           Call("get_latest_error_msg", None, None, None, get_latest_error_msg(r))

Call_get_latest_error_code ==
    /\ pc = "idle"
    /\ \E r \in Replies :
           Call("get_latest_error_code", None, None, None,
                get_latest_error_code(r))

Call_purge_all_settings ==
    /\ pc = "idle"
    /\ Call("purge_all_settings", None, None, None, purge_all_settings)

\* the caller takes the outcome of the finished call and may call again
Resume ==
    /\ pc = "done"
    /\ pc' = "idle"
    /\ op' = NoOp
    /\ wire' = <<>>
    /\ result' = NoResult

Next ==
    \/ Call_get_acceleration
    \/ Call_get_id
    \/ Call_get_firmware_version
    \/ Call_set_velocity
    \/ Call_get_velocity
    \/ Call_set_acceleration
    \/ Call_get_position
    \/ Call_set_home
    \/ Call_get_home
    \/ Call_finished_moving
    \/ Call_move_indefinitely
    \/ Call_move_to_target
    \/ Poll_move_to_target
    \/ Call_get_target
    \/ Call_move_relative
    \/ Poll_move_relative
    \/ Call_get_relative_target
    \/ Call_detect_motors
    \/ Call_set_motor_type
    \/ Call_get_motor_type
    \/ Call_set_address
    \/ Call_get_address
    \/ Call_scan
    \/ Poll_scan
    \/ Call_is_scan_done
    \/ Call_get_controller_address_map
    \/ Call_save_settings
    \/ Call_stop_motion
    \/ Call_get_latest_error_msg
    \/ Call_get_latest_error_code
    \/ Call_purge_all_settings
    \/ Resume

Spec == Init /\ [][Next]_vars

----------------------------------------------------------------------------
(* format_command on its own: the inputs are drawn by the initial state *)

\* mnemonics handed to format_command: the table's and some outside it
MnemonicArgs == CommandValues \cup {<<"Z", "Z">>, <<"v", "a">>, <<>>}

FormatValArgs == {None, I(0), I(-5), I(500), S(<<"+">>)}

InitFormat ==
    /\ pc = "input"
    /\ op \in {[name |-> "format_command", mn |-> m, addr |-> a, axis |-> x,
                val |-> v, raw |-> <<>>] :
                   m \in MnemonicArgs, a \in AddrArgs, x \in AxisArgs,
                   v \in FormatValArgs}
    /\ wire = <<>>
    /\ result = NoResult

Call_format_command ==
    /\ pc = "input"
    /\ op.name = "format_command"
    /\ result' = format_command(op.mn, op.addr, op.axis, op.val)
    /\ pc' = "output"
    /\ UNCHANGED <<op, wire>>

SpecFormat == InitFormat /\ [][Call_format_command]_vars

----------------------------------------------------------------------------
(* parse_reply on its own: the inputs are drawn by the initial state *)

\* bytes of the raw replies: '1', '>', 'X', CR, LF, space
ParseBytes == {49, 62, 88, 13, 10, 32}

BoundedSeq(A, n) == UNION {[1..k -> A] : k \in 0..n}

InitParse ==
    /\ pc = "input"
    /\ op \in {[name |-> "parse_reply", mn |-> <<>>, addr |-> None,
                axis |-> None, val |-> None, raw |-> r] :
                   r \in BoundedSeq(ParseBytes, MaxReplyLen) \cup Replies}
    /\ wire = <<>>
    /\ result = NoResult

Call_parse_reply ==
    /\ pc = "input"
    /\ op.name = "parse_reply"
    /\ result' = Ok(S(parse_reply(op.raw)))
    /\ pc' = "output"
    /\ UNCHANGED <<op, wire>>

SpecParse == InitParse /\ [][Call_parse_reply]_vars

----------------------------------------------------------------------------
(* The polling operations on a channel whose transfers can fail: ep_out.write
   and ep_in.read raise usb.core.USBError, which no method catches *)

TransportError == "USBError"

\* a write that raised, a read that raised
WrX(cmd) == [t |-> "wx", cmd |-> cmd, data |-> <<>>]

RdX == [t |-> "rx", cmd |-> <<>>, data |-> <<>>]

\* send_command with the transfer at `at` raising: a failed write ends the
\* call before the read
send_command_fails(usb_command, get_reply, at) ==
    IF at = "write" THEN <<WrX(usb_command)>>
    ELSE IF get_reply THEN <<Wr(usb_command), RdX>>
    ELSE <<Wr(usb_command)>>

\* cmd = format_command(...); reply = parse_reply(send_command(cmd, True)),
\* send_command raising
SendQueryFails(fc, at) ==
    IF fc.st = "err" THEN Out(fc, <<>>)
    ELSE Out(Err(TransportError), send_command_fails(fc.val.s, TRUE, at))

finished_moving_fails(addr, axis, at) ==
    ReturnDone(SendQueryFails(
        format_command(COMMANDS.query_motion_done, addr, axis, None), at))

is_scan_done_fails(at) ==
    ReturnDone(SendQueryFails(
        format_command(COMMANDS.query_scan_status, I(1), None, None), at))

\* a status query of move_to_target's or move_relative's loop raises
Fault_move ==
    /\ pc = "polling"
    /\ op.name \in {"move_to_target", "move_relative"}
    /\ NumPolls < MaxPolls
    /\ \E at \in {"write", "read"} :
           PollStep(finished_moving_fails(op.addr, op.axis, at))

Fault_scan ==
    /\ pc = "polling"
    /\ op.name = "scan"
    /\ NumPolls < MaxPolls
    /\ \E at \in {"write", "read"} : PollStep(is_scan_done_fails(at))

NextFaulty ==
    \/ Call_move_to_target
    \/ Poll_move_to_target
    \/ Call_move_relative
    \/ Poll_move_relative
    \/ Fault_move
    \/ Call_scan
    \/ Poll_scan
    \/ Fault_scan
    \/ Resume

SpecFaulty == Init /\ [][NextFaulty]_vars

----------------------------------------------------------------------------
(* The polling operations run without a bound on the number of status
   queries, on a channel that never fails and answers every status query
   with a status: the channel log keeps the operation's command and the
   latest KeptPolls status queries *)

KeptPolls == 2

\* the status replies of the device
StatusReplies == {r \in PollReplies : parse_reply(r) # <<>>}

\* the command of the operation and the latest status queries of its loop
Kept(w) ==
    IF Len(w) <= 1 + 2 * KeptPolls THEN w
    ELSE <<w[1]>> \o SubSeq(w, Len(w) - 2 * KeptPolls + 1, Len(w))

\* mutant of LivePollStep: `if not <status query>: pass`, one status query
\* and the operation returns
LivePollStep_once(q) ==
    /\ wire' = Kept(wire \o q.io)
    /\ result' = IF q.res.st = "err" THEN q.res ELSE Ok(None)
    /\ pc' = "done"
    /\ UNCHANGED op

\* one evaluation of `while not <status query>: pass`
LivePollStep(q) ==
    /\ wire' = Kept(wire \o q.io)
    /\ result' = IF q.res.st = "err" THEN q.res
                 ELSE IF q.res.val = B(TRUE) THEN Ok(None)
                 ELSE result
    /\ pc' = IF q.res.st = "err" \/ q.res.val = B(TRUE) THEN "done" ELSE pc
    /\ UNCHANGED op

\* the loop of move_to_target and of move_relative
LivePoll_move ==
    /\ pc = "polling"
    /\ op.name \in {"move_to_target", "move_relative"}
    /\ \E r \in StatusReplies :
           \E q \in {finished_moving(op.addr, op.axis, r)} : LivePollStep(q)

LivePoll_scan ==
    /\ pc = "polling"
    /\ op.name = "scan"
    /\ \E r \in StatusReplies :
           \E q \in {is_scan_done(r)} : LivePollStep(q)

LivePoll ==
    \/ LivePoll_move
    \/ LivePoll_scan

NextLive ==
    \/ Call_move_to_target
    \/ Call_move_relative
    \/ Call_scan
    \/ LivePoll
    \/ Resume

\* the status replies whose text ends in '1'
DoneReplies == {r \in StatusReplies : LastIsOne(parse_reply(r))}

\* the loop keeps running and the channel eventually answers one of its
\* status queries with a text ending in '1'
SpecLive ==
    /\ Init
    /\ [][NextLive]_vars
    /\ WF_vars(LivePoll /\ wire'[Len(wire')].data \in DoneReplies)

----------------------------------------------------------------------------
(* Two callers (threads of the host) invoke query operations on the same
   Controller. send_command is two transfers, ep_out.write and ep_in.read,
   and the Controller holds no lock, so the callers' transfers interleave.
   Here pc, op and result are per caller, pc[c] being the transfers caller c
   still has to make, and wire is the log of the shared channel. The device
   answers the queries in the order it receives them, and a read takes the
   oldest answer not yet read. *)

MaxCalls == 2

Callers == {1, 2}

\* mutant of send_command_steps: the IN endpoint is read before the command
\* is written
send_command_steps_read_first(get_reply) ==
    IF get_reply THEN <<"read", "write">> ELSE <<"write">>

\* the transfers of send_command, in the order it makes them
send_command_steps(get_reply) ==
    IF get_reply THEN <<"write", "read">> ELSE <<"write">>

\* the queries the callers make, with the command each one formats
TwoQueries ==
    { [name |-> "get_velocity",
       cmd |-> format_command(COMMANDS.query_velocity, I(1), I(1), None).val.s],
      [name |-> "get_position",
       cmd |-> format_command(COMMANDS.query_pos, I(1), I(2), None).val.s],
      [name |-> "get_id",
       cmd |-> format_command(COMMANDS.id_string, I(2), None, None).val.s] }

\* the device's reply to a command, as a value
ReplyTo(cmd) == [k |-> "reply", n |-> 0, s |-> cmd, l |-> <<>>]

Written(c, cmd) == [t |-> "w", who |-> c, cmd |-> cmd, re |-> <<>>]

\* caller c read the reply to the command `re`
Received(c, re) == [t |-> "r", who |-> c, cmd |-> <<>>, re |-> re]

\* the command whose reply the next read takes: the oldest one not yet
\* answered to a reader; <<>> when the device has nothing to send
NextAnswered(w) ==
    LET writes == SelectSeq(w, LAMBDA e : e.t = "w")
        reads == SelectSeq(w, LAMBDA e : e.t = "r")
    IN  IF Len(reads) < Len(writes) THEN writes[Len(reads) + 1].cmd ELSE <<>>

InitTwo ==
    /\ pc = [c \in Callers |-> <<>>]
    /\ op = [c \in Callers |-> [name |-> "", cmd |-> <<>>]]
    /\ wire = <<>>
    /\ result = [c \in Callers |-> NoResult]

\* caller c enters a query operation, up to its send_command
Two_call ==
    \E c \in Callers, q \in TwoQueries :
        /\ pc[c] = <<>>
        /\ Len(SelectSeq(wire, LAMBDA e : e.t = "w" /\ e.who = c)) < MaxCalls
        /\ op' = [op EXCEPT ![c] = q]
        /\ pc' = [pc EXCEPT ![c] = send_command_steps(TRUE)]
        /\ result' = [result EXCEPT ![c] = Pending]
        /\ UNCHANGED wire

\* self.ep_out.write(usb_command)
Two_write ==
    \E c \in Callers :
        /\ pc[c] # <<>> /\ Head(pc[c]) = "write"
        /\ wire' = Append(wire, Written(c, op[c].cmd))
        /\ pc' = [pc EXCEPT ![c] = Tail(pc[c])]
        /\ UNCHANGED <<op, result>>

\* return self.ep_in.read(100)
Two_read ==
    \E c \in Callers :
        /\ pc[c] # <<>> /\ Head(pc[c]) = "read"
        /\ wire' = Append(wire, Received(c, NextAnswered(wire)))
        /\ result' = [result EXCEPT ![c] =
                          IF NextAnswered(wire) = <<>> THEN Err(TransportError)
                          ELSE Ok(ReplyTo(NextAnswered(wire)))]
        /\ pc' = [pc EXCEPT ![c] = Tail(pc[c])]
        /\ UNCHANGED op

NextTwo ==
    \/ Two_call
    \/ Two_write
    \/ Two_read

SpecTwo == InitTwo /\ [][NextTwo]_vars

----------------------------------------------------------------------------
(* Properties *)

ValidAddr(a) == a \in {I(1), I(2)}

ValidAxis(x) == x \in {I(1), I(2), I(3), I(4)}

InRange(v, lo, hi) == v.k = "int" /\ lo <= v.n /\ v.n <= hi

\* operations that take an address
AddressedOps ==
    {"set_velocity", "get_velocity", "set_acceleration", "get_acceleration",
     "get_position", "set_home", "get_home", "finished_moving",
     "move_indefinitely", "move_to_target", "get_target", "move_relative",
     "get_relative_target", "detect_motors", "set_motor_type",
     "get_motor_type", "set_address", "get_address", "stop_motion", "get_id"}

\* operations that take an address and an axis
AxisOps == AddressedOps \ {"detect_motors", "set_address", "get_address", "get_id"}

NoTraffic == wire = <<>>

\* C1: every operation that takes an address and/or an axis fails with an
\* invalid-address or invalid-axis error, and writes nothing to the channel,
\* whenever the address is not 1 or 2 or the axis passed is not an integer in
\* 1..4 (0 included).
C1_InvalidAddrAxisRejected ==
    (/\ op.name \in AddressedOps
     /\ \/ ~ValidAddr(op.addr)
        \/ op.name \in AxisOps /\ op.axis # None /\ ~ValidAxis(op.axis))
    => /\ pc = "done"
       /\ result.st = "err"
       /\ result.err \in {InvalidAddress, InvalidAxis}
       /\ NoTraffic

\* the call was rejected with error e (or with an address/axis error when
\* those arguments are invalid too) before any write or read
RejectedWith(e) ==
    /\ pc = "done"
    /\ result.st = "err"
    /\ NoTraffic
    /\ (ValidAddr(op.addr) /\ ValidAxis(op.axis)) => result.err = e

\* C2: set_velocity, set_acceleration, set_motor_type, set_address and scan
\* reject a value outside their domain with an invalid-argument error, and
\* the channel sees no write and no read.
C2_OutOfDomainRejected ==
    /\ (op.name = "set_velocity" /\ ~InRange(op.val, 1, 2000))
           => RejectedWith(InvalidVelocity)
    /\ (op.name = "set_acceleration" /\ ~InRange(op.val, 1, 200000))
           => RejectedWith(InvalidAcceleration)
    /\ (op.name = "set_motor_type" /\ ~InRange(op.val, 0, 3))
           => RejectedWith(InvalidMotorType)
    /\ (op.name = "set_address" /\ ~InRange(op.val, 1, 31))
           => /\ pc = "done" /\ result.st = "err" /\ NoTraffic
              /\ ValidAddr(op.addr) => result.err = InvalidNewAddress
    /\ (op.name = "scan" /\ ~InRange(op.val, 0, 2))
           => /\ pc = "done" /\ NoTraffic
              /\ result = Err(InvalidConflictMode)

\* C2 witness: scan(3) has been rejected
C2_Witness ==
    /\ pc = "done"
    /\ op.name = "scan"
    /\ op.val = I(3)
    /\ result = Err(InvalidConflictMode)
    /\ NoTraffic

\* the status reply says done: the text after the echo ends in '1'
DoneReply(data) ==
    LET p == parse_reply(data) IN p # <<>> /\ p[Len(p)] = "1"

\* the status reply says not done: the text after the echo ends otherwise
NotDoneReply(data) ==
    LET p == parse_reply(data) IN p # <<>> /\ p[Len(p)] # "1"

StatusQueries(status) ==
    Cardinality({i \in 1..Len(wire) : wire[i] = Wr(status)})

NotDoneReplies ==
    Cardinality({i \in 1..Len(wire) : wire[i].t = "r" /\ NotDoneReply(wire[i].data)})

\* the traffic of a polling call: the command once, then status queries one
\* after another, each answered before the next, none after a done reply
PollShape(command, status) ==
    /\ Len(wire) % 2 = 1
    /\ wire[1] = Wr(command)
    /\ \A i \in 2..Len(wire) :
           IF i % 2 = 0 THEN wire[i] = Wr(status) ELSE wire[i].t = "r"
    /\ \A i \in 2..(Len(wire) - 1) :
           wire[i].t = "r" => NotDoneReply(wire[i].data)
    /\ pc \in {"polling", "done"}
    /\ pc = "polling" =>
           /\ result = Pending
           /\ Len(wire) > 1 => NotDoneReply(wire[Len(wire)].data)
    /\ pc = "done" =>
           /\ Len(wire) > 1
           /\ ~NotDoneReply(wire[Len(wire)].data)
           /\ result = Ok(None) <=> DoneReply(wire[Len(wire)].data)
           /\ result = Ok(None) => StatusQueries(status) = NotDoneReplies + 1

MoveOps == {"move_to_target", "move_relative"}

MoveCommand ==
    fstr(op.addr) \o <<">">> \o fstr(op.axis)
        \o (IF op.name = "move_to_target" THEN COMMANDS.move_to_target_pos
            ELSE COMMANDS.move_relative)
        \o fstr(op.val) \o <<CR>>

MotionDoneQuery ==
    fstr(op.addr) \o <<">">> \o fstr(op.axis) \o COMMANDS.query_motion_done
        \o <<CR>>

\* C3: move_to_target and move_relative with valid arguments write the move
\* command exactly once, then motion-done queries for the same address and
\* axis one after another, and return only after the first done reply: k
\* not-done replies and one done reply make k+1 queries, with no traffic after.
C3_MovePollsUntilDone ==
    (/\ op.name \in MoveOps
     /\ ValidAddr(op.addr) /\ ValidAxis(op.axis) /\ op.val.k = "int")
    => PollShape(MoveCommand, MotionDoneQuery)

\* C3 witness: move_to_target(1, 1, 500) returned after three not-done
\* replies and one done reply, four status queries in all
C3_Witness ==
    /\ op = Args("move_to_target", I(1), I(1), I(500))
    /\ pc = "done"
    /\ result = Ok(None)
    /\ NotDoneReplies = 3
    /\ StatusQueries(<<"1", ">", "1", "M", "D", "?", CR>>) = 4
    /\ wire[1] = Wr(<<"1", ">", "1", "P", "A", "5", "0", "0", CR>>)
    /\ Len(wire) = 9

ScanCommand ==
    <<"1", ">">> \o COMMANDS.scan_RS485 \o <<DigitChars[op.val.n + 1], CR>>

ScanStatusQuery == <<"1", ">">> \o COMMANDS.query_scan_status \o <<CR>>

\* C4: scan(mode) with mode in {0,1,2} writes the scan command carrying the
\* mode exactly once (mode 0 too), then polls is_scan_done; it returns only
\* after a status reply ending in '1' and keeps polling while the replies
\* end in '0'.
C4_ScanPollsUntilDone ==
    (op.name = "scan" /\ InRange(op.val, 0, 2))
    => /\ PollShape(ScanCommand, ScanStatusQuery)
       /\ (\A i \in 1..Len(wire) :
               wire[i].t = "r" =>
                   LET p == parse_reply(wire[i].data)
                   IN  p # <<>> /\ p[Len(p)] = "0")
          => pc = "polling"

\* C4 witness: scan(0) returned after a reply ending in '0' and one in '1'
C4_Witness ==
    /\ op.name = "scan"
    /\ op.val = I(0)
    /\ pc = "done"
    /\ result = Ok(None)
    /\ wire[1] = Wr(<<"1", ">", "S", "C", "0", CR>>)
    /\ Len(wire) = 5
    /\ wire[3] = Rd(<<49, 62, 48, 13, 10>>)
    /\ wire[5] = Rd(<<49, 62, 49, 13, 10>>)

\* the text of each value handed to format_command, written out
ValueText(v) ==
    CASE v = I(0) -> <<"0">>
      [] v = I(-5) -> <<"-", "5">>
      [] v = I(500) -> <<"5", "0", "0">>
      [] v = S(<<"+">>) -> <<"+">>
      [] v = None -> <<>>

\* the digit of an address 1..2 or an axis 1..4; nothing for an omitted axis
DigitText(v) ==
    CASE v = None -> <<>>
      [] v = I(1) -> <<"1">>
      [] v = I(2) -> <<"2">>
      [] v = I(3) -> <<"3">>
      [] v = I(4) -> <<"4">>

CountCR(s) == Cardinality({i \in 1..Len(s) : s[i] = CR})

\* C5: for every mnemonic of the table, address in {1,2}, axis in 1..4 or
\* omitted, and value or none, format_command returns exactly
\* "{addr}>{axis}{mnemonic}{value}\r", without the axis digit when the axis is
\* omitted and without the value segment when the value is omitted, and the
\* result ends in exactly one carriage return.
C5_FormatExact ==
    (/\ pc = "output"
     /\ op.mn \in CommandValues
     /\ ValidAddr(op.addr)
     /\ ValidAxis(op.axis) \/ op.axis = None)
    => /\ result = Ok(S(DigitText(op.addr) \o <<">">> \o DigitText(op.axis)
                            \o op.mn \o ValueText(op.val) \o <<CR>>))
       /\ result.val.s[Len(result.val.s)] = CR
       /\ CountCR(result.val.s) = 1

\* C5 witness: format_command('VA', 1, 2, 500) returned "1>2VA500\r"
C5_Witness ==
    /\ pc = "output"
    /\ op.mn = <<"V", "A">>
    /\ op.addr = I(1)
    /\ op.axis = I(2)
    /\ op.val = I(500)
    /\ result = Ok(S(<<"1", ">", "2", "V", "A", "5", "0", "0", CR>>))

\* C6: set_address(addr, val) with addr in {1,2} and val in 1..31 succeeds
\* and writes exactly one command, "{addr}>{mnemonic}{val}\r", with val as
\* the value segment and no axis token.
C6_SetAddressWritesValue ==
    (/\ op.name = "set_address"
     /\ ValidAddr(op.addr)
     /\ InRange(op.val, 1, 31))
    => /\ pc = "done"
       /\ result = Ok(None)
       /\ wire = <<Wr(fstr(op.addr) \o <<">">> \o COMMANDS.set_address
                          \o fstr(op.val) \o <<CR>>)>>

\* what is left of a raw reply after its trailing whitespace is stripped
Usable(raw) == rstrip(decode(raw))

\* C7: parse_reply fails with a malformed-reply error whenever fewer than 2
\* characters remain after stripping trailing whitespace and terminators; it
\* never returns a string for such a reply.
C7_ShortReplyFails ==
    (pc = "output" /\ op.name = "parse_reply" /\ Len(Usable(op.raw)) < 2)
    => result.st = "err"

Terminators == {CR, LF}

Whitespace == {" ", CR, LF}

\* C8: for a reply made of a two-character address echo, a payload without
\* trailing whitespace and any number of trailing terminators, parse_reply
\* returns exactly the payload; the bytes of "1>XYZ\r\n" yield "XYZ".
C8_ParseReturnsPayload ==
    (pc = "output" /\ op.name = "parse_reply")
    => /\ \A j \in 2..Len(op.raw) :
              LET s == decode(op.raw)
              IN  (/\ \A i \in (j + 1)..Len(s) : s[i] \in Terminators
                   /\ j > 2 => s[j] \notin Whitespace)
                  => result = Ok(S(SubSeq(s, 3, j)))
       /\ op.raw = <<49, 62, 88, 89, 90, 13, 10>>
              => result = Ok(S(<<"X", "Y", "Z">>))

\* C8 witness: parse_reply returned "XYZ" for the bytes of "1>XYZ\r\n"
C8_Witness ==
    /\ pc = "output"
    /\ op.name = "parse_reply"
    /\ op.raw = <<49, 62, 88, 89, 90, 13, 10>>
    /\ result = Ok(S(<<"X", "Y", "Z">>))

StatusOps == {"finished_moving", "is_scan_done"}

\* C9: finished_moving and is_scan_done return true if and only if the last
\* character of the parsed reply is '1', and false when it is '0', whatever
\* precedes it; a reply with an empty payload does not produce true.
C9_DoneIffLastIsOne ==
    (op.name \in StatusOps /\ pc = "done" /\ Len(wire) = 2)
    => LET p == parse_reply(wire[2].data)
       IN  /\ result = Ok(B(TRUE)) <=> (p # <<>> /\ p[Len(p)] = "1")
           /\ (p # <<>> /\ p[Len(p)] = "0") => result = Ok(B(FALSE))
           /\ p = <<>> => result # Ok(B(TRUE))

\* C9 witness: finished_moving(1, 1) answered true to "1>01\r\n"
C9_Witness ==
    /\ op = Args("finished_moving", I(1), I(1), None)
    /\ pc = "done"
    /\ wire = << Wr(<<"1", ">", "1", "M", "D", "?", CR>>),
                 Rd(<<49, 62, 48, 49, 13, 10>>) >>
    /\ result = Ok(B(TRUE))

\* bitmasks the device reports, with the raw reply that carries each
ReportedMasks ==
    { <<0, <<49, 62, 48, 13, 10>> >>,
      <<1, <<49, 62, 49, 13, 10>> >>,
      <<2, <<49, 62, 50, 13, 10>> >>,
      <<3, <<50, 62, 51, 13, 10>> >>,
      <<5, <<49, 62, 53, 13, 10>> >>,
      <<6, <<49, 62, 54, 13, 10>> >>,
      <<7, <<49, 62, 55, 13, 10>> >>,
      <<10, <<49, 62, 49, 48, 13>> >>,
      <<500, <<49, 62, 53, 48, 48, 13>> >> }

\* number of binary digits of a natural number (1 for 0)
BitLength(n) == CHOOSE k \in 1..16 : n < 2^k /\ (k = 1 \/ n >= 2^(k - 1))

\* C10: get_controller_address_map returns a 0/1 sequence whose element i
\* (index 0 = conflict flag) is bit i of the reported bitmask, least
\* significant bit first: bitmask 5 (binary 101) yields [1,0,1].
C10_AddressMapBitOrder ==
    (op.name = "get_controller_address_map" /\ pc = "done")
    => /\ \A m \in ReportedMasks :
              wire[2].data = m[2]
              => /\ result.st = "ok"
                 /\ result.val.k = "list"
                 /\ Len(result.val.l) = BitLength(m[1])
                 /\ \A i \in 0..(Len(result.val.l) - 1) :
                        result.val.l[i + 1] = (m[1] \div 2^i) % 2
       /\ wire[2].data = <<49, 62, 53, 13, 10>>
              => result = Ok(L(<<1, 0, 1>>))

\* C10 witness: bitmask 6 (binary 110) gave [0,1,1]
C10_Witness ==
    /\ op.name = "get_controller_address_map"
    /\ pc = "done"
    /\ wire[2] = Rd(<<49, 62, 54, 13, 10>>)
    /\ result = Ok(L(<<0, 1, 1>>))

\* the last character of the text a raw reply carries after its echo
LastChar(data) == parse_reply(data)[Len(parse_reply(data))]

\* C11: get_motor_type maps the code in the reply, 0, 1, 2, 3, to "No motor
\* connected", "Motor Unknown", "'Tiny' Motor", "'Standard' Motor", and fails
\* with an error instead of returning a label for any other code.
C11_MotorTypeLookup ==
    (op.name = "get_motor_type" /\ pc = "done" /\ Len(wire) = 2)
    => IF parse_reply(wire[2].data) = <<>> THEN result.st = "err"
       ELSE LET c == LastChar(wire[2].data)
            IN  /\ c = "0" => result = Ok(S(<<"No motor connected">>))
                /\ c = "1" => result = Ok(S(<<"Motor Unknown">>))
                /\ c = "2" => result = Ok(S(<<"'Tiny' Motor">>))
                /\ c = "3" => result = Ok(S(<<"'Standard' Motor">>))
                /\ c \notin {"0", "1", "2", "3"} => result.st = "err"

\* C11 witness: get_motor_type(1, 1) has failed on the reply code 7
C11_Witness ==
    /\ op = Args("get_motor_type", I(1), I(1), None)
    /\ pc = "done"
    /\ wire[2] = Rd(<<49, 62, 55, 13, 10>>)
    /\ result = Err(KeyError)

\* operations that return int(reply)
IntQueries ==
    {"get_velocity", "get_acceleration", "get_position", "get_target",
     "get_address"}

\* raw replies whose payload is a number, with the number
NumberReplies ==
    ReportedMasks \cup { <<-5, <<49, 62, 45, 53, 13, 10>> >>,
                         <<1, <<49, 62, 48, 49, 13, 10>> >> }

\* raw replies whose payload is no number
NoNumberReplies ==
    { <<>>, <<49, 62, 13, 10>>, <<49, 62, 88, 89, 90, 13, 10>> }

\* C12: an integer query with valid arguments returns the integer the reply
\* payload denotes once echo and terminator are stripped (get_velocity(1,2)
\* on "1>500\r" returns 500), and fails on a payload that is not a number.
C12_IntQueryReturnsInt ==
    (op.name \in IntQueries /\ pc = "done" /\ Len(wire) = 2)
    => /\ \A m \in NumberReplies :
              wire[2].data = m[2] => result = Ok(I(m[1]))
       /\ wire[2].data \in NoNumberReplies => result.st = "err"

\* C12 witness: get_velocity(1, 2) returned 500 for "1>500\r"
C12_Witness ==
    /\ op = Args("get_velocity", I(1), I(2), None)
    /\ pc = "done"
    /\ wire = << Wr(<<"1", ">", "2", "V", "A", "?", CR>>),
                 Rd(<<49, 62, 53, 48, 48, 13>>) >>
    /\ result = Ok(I(500))

\* C13: set_home(addr, axis) with a valid address and axis and no val
\* succeeds: it writes exactly one define-home command and raises no error.
C13_SetHomeDefault ==
    (/\ op.name = "set_home"
     /\ ValidAddr(op.addr) /\ ValidAxis(op.axis)
     /\ op.val = None)
    => /\ pc = "done"
       /\ result = Ok(None)
       /\ Len(wire) = 1
       /\ wire[1].t = "w"
       /\ SubSeq(wire[1].cmd, 1, 5)
              = fstr(op.addr) \o <<">">> \o fstr(op.axis) \o COMMANDS.define_home

WriteOnlyOps ==
    {"set_velocity", "set_acceleration", "set_home", "set_motor_type",
     "set_address", "move_indefinitely", "detect_motors", "save_settings",
     "stop_motion", "purge_all_settings"}

QueryOps ==
    {"get_id", "get_firmware_version", "get_velocity", "get_acceleration",
     "get_position", "get_home", "get_target", "get_relative_target",
     "get_motor_type", "get_address", "get_controller_address_map",
     "get_latest_error_msg", "get_latest_error_code"}

\* C14: every successful write-only operation performs exactly one channel
\* write and no read; every successful non-polling query performs exactly one
\* write followed by exactly one read.
C14_ExactlyOnce ==
    (pc = "done" /\ result.st = "ok")
    => /\ op.name \in WriteOnlyOps => (Len(wire) = 1 /\ wire[1].t = "w")
       /\ op.name \in QueryOps =>
              (Len(wire) = 2 /\ wire[1].t = "w" /\ wire[2].t = "r")

\* C14 witness: save_settings has written its one command, and so has a query
C14_Witness ==
    /\ op.name = "save_settings"
    /\ pc = "done"
    /\ result = Ok(None)
    /\ wire = <<Wr(<<"1", ">", "S", "M", CR>>)>>

PollingOps == {"move_to_target", "move_relative", "scan"}

\* the transfers in the channel log that raised
FailedTransfers == {i \in 1..Len(wire) : wire[i].t \in {"wx", "rx"}}

\* C15: when the write or the read of a status query fails with a transport
\* error while move_to_target, move_relative or scan polls, the operation
\* ends with that error at once: the failed transfer is the last one and the
\* loop is left.
C15_TransportErrorEndsPolling ==
    (op.name \in PollingOps /\ FailedTransfers # {})
    => /\ FailedTransfers = {Len(wire)}
       /\ pc = "done"
       /\ result = Err(TransportError)

\* C15 witness: scan has polled twice without the scan being done and the
\* read of its third status query failed
C15_Witness ==
    /\ op.name = "scan"
    /\ pc = "done"
    /\ result = Err(TransportError)
    /\ Len(wire) = 7
    /\ NotDoneReply(wire[3].data) /\ NotDoneReply(wire[5].data)
    /\ wire[6] = Wr(<<"1", ">", "S", "D", "?", CR>>)
    /\ wire[7] = RdX

\* a polling operation returns in this step
Returns == pc = "polling" /\ pc' = "done" /\ result' = Ok(None)

\* C16: if the channel eventually delivers a status reply ending in '1' and
\* never fails, move_to_target, move_relative and scan eventually return;
\* and they return on no other reply (no timeout, no bound on the
\* iterations, no cancellation), so that on replies ending in '0' they poll
\* for ever.
C16_PollingTerminates ==
    /\ (pc = "polling") ~> (pc = "done" /\ result = Ok(None))
    /\ [][pc = "polling" /\ pc' # "polling"
              => Returns /\ DoneReply(wire'[Len(wire')].data)]_vars

\* C16 witness: move_relative returned on a status reply ending in '1' that
\* followed one ending in '0'
C16_Witness ==
    /\ op.name = "move_relative"
    /\ pc = "done"
    /\ result = Ok(None)
    /\ Len(wire) = 5
    /\ NotDoneReply(wire[3].data)
    /\ DoneReply(wire[5].data)

\* only caller c has used the channel
OnlyCaller(c) == \A i \in 1..Len(wire) : wire[i].who = c

\* C17: with a single caller no other write or read occurs between the write
\* of a query and its read, and every read returns the reply to the command
\* written immediately before it. (With two callers the Controller, which
\* holds no lock, lets a caller's read receive the reply to the other
\* caller's command: the state C17_Witness.)
C17_SingleCallerReadsOwnReply ==
    \A c \in Callers :
        OnlyCaller(c)
        => \A i \in 1..Len(wire) :
               wire[i].t = "r"
               => /\ i > 1
                  /\ wire[i - 1].t = "w"
                  /\ wire[i].re = wire[i - 1].cmd
                  /\ (i = Len(wire) /\ pc[c] = <<>>)
                         => result[c] = Ok(ReplyTo(op[c].cmd))

\* C17 witness: caller 1 wrote get_velocity's command, caller 2 wrote
\* get_position's, and caller 2's read received the reply to caller 1's
C17_Witness ==
    /\ Len(wire) = 3
    /\ wire[1] = Written(1, <<"1", ">", "1", "V", "A", "?", CR>>)
    /\ wire[2] = Written(2, <<"1", ">", "2", "T", "P", "?", CR>>)
    /\ wire[3] = Received(2, <<"1", ">", "1", "V", "A", "?", CR>>)
    /\ op[2].name = "get_position"
    /\ result[2] = Ok(ReplyTo(wire[1].cmd))

\* C18: an axis supplied to format_command is validated: every supplied
\* axis that is not an integer in 1..4, 0 included, fails with the
\* invalid-axis error, so no command without an axis token is returned for a
\* call that supplied an axis.
C18_SuppliedAxisValidated ==
    (/\ pc = "output"
     /\ op.mn \in CommandValues
     /\ ValidAddr(op.addr)
     /\ op.axis # None /\ ~ValidAxis(op.axis))
    => result = Err(InvalidAxis)

\* C19: format_command fails with the invalid-command error for every
\* mnemonic that is not a value of the command table, whatever the address,
\* axis and value are, and returns no command.
C19_UnknownMnemonicRejected ==
    (pc = "output" /\ op.mn \notin CommandValues)
    => result = Err(InvalidCommand)

\* C19 witness: a mnemonic outside the table handed over with an invalid
\* address and an invalid axis was rejected as an invalid command
C19_Witness ==
    /\ pc = "output"
    /\ op.mn = <<"Z", "Z">>
    /\ op.addr = I(3)
    /\ op.axis = I(5)
    /\ result = Err(InvalidCommand)

\* the operations that take no address, with the mnemonics they send
NoAddressOps ==
    [ get_firmware_version       |-> {<<"V", "E", "?">>},
      scan                       |-> {<<"S", "C">>, <<"S", "D", "?">>},
      is_scan_done               |-> {<<"S", "D", "?">>},
      get_controller_address_map |-> {<<"S", "C", "?">>},
      save_settings              |-> {<<"S", "M">>},
      get_latest_error_msg       |-> {<<"T", "B", "?">>},
      get_latest_error_code      |-> {<<"T", "E", "?">>},
      purge_all_settings         |-> {<<"X", "X">>} ]

\* the command starts with "1>" followed directly by the mnemonic mn
ToControllerOne(cmd, mn) ==
    /\ Len(cmd) >= 2 + Len(mn)
    /\ SubSeq(cmd, 1, 2 + Len(mn)) = <<"1", ">">> \o mn

\* C20: the operations that take no address always address controller 1 and
\* carry no axis token: every command they write starts with "1>" followed
\* directly by the mnemonic, whatever operations came before.
C20_NoAddressOpsUseControllerOne ==
    op.name \in DOMAIN NoAddressOps
    => \A i \in 1..Len(wire) :
           wire[i].t = "w"
           => \E mn \in NoAddressOps[op.name] : ToControllerOne(wire[i].cmd, mn)

\* C20 witness: get_controller_address_map has written "1>SC?\r"
C20_Witness ==
    /\ op.name = "get_controller_address_map"
    /\ pc = "done"
    /\ Len(wire) = 2
    /\ wire[1] = Wr(<<"1", ">", "S", "C", "?", CR>>)

=============================================================================
